---- MODULE Spec2Model ----
(***************************************************************************)
(* Model of dashboard.js: the CloudBees Core pod monitor.                  *)
(*                                                                         *)
(*  - the derivation functions of JenkinsPodMonitor (formatUptime,         *)
(*    formatRestartInfo, formatHealthStatus, the verdict of printSummary,  *)
(*    the two fetchers) as operators, applied to bounded inputs under      *)
(*    SpecCalls;                                                           *)
(*  - the script itself (argument handling, monitor.run, runMonitor and    *)
(*    the setInterval timer) as a state machine under Spec.                *)
(*                                                                         *)
(* Strings are real strings, built by concatenation as the template        *)
(* literals build them.  ANSI escapes and emoji are written in ASCII.      *)
(***************************************************************************)
EXTENDS Integers, Sequences, FiniteSets, TLC

VARIABLES
    argv,       \* process.argv flags given to the script
    pc,         \* "start" | "running" | "exited": the node process
    exitCode,   \* exit status once pc = "exited"
    timerSet,   \* setInterval(runMonitor, 30000) is registered
    sinceTick,  \* ms elapsed since the interval was armed or last fired
    cycles,     \* one record per monitor.run() invocation, in start order
    console,    \* lines written since the last console.clear()
    call,       \* SpecCalls: the function applied and its arguments
    returned,   \* SpecCalls: the call has returned
    ret         \* SpecCalls: the value it returned

vars == <<argv, pc, exitCode, timerSet, sinceTick, cycles, console, call, returned, ret>>

procVars == <<argv, pc, exitCode, timerSet, sinceTick, cycles, console>>
callVars == <<call, returned, ret>>

(***************************************************************************)
(* Bounds of the model.                                                    *)
(***************************************************************************)
MaxDays == 2          \* whole days of elapsed time sampled
MaxRestarts == 7      \* restart counts 0..MaxRestarts
MaxConditions == 2    \* length of a pod's condition sequence
MaxPods == 3          \* pods handed to printSummary
MaxStatefulSets == 1  \* StatefulSets handed to printSummary
MaxCycles == 2        \* monitor.run() invocations in one execution
ClockStep == 15000    \* ms by which the model's clock advances

(***************************************************************************)
(* colors and statusIcons (ASCII stand-ins for the escape codes / emoji).  *)
(***************************************************************************)
colors ==
    [reset |-> "[0m", bright |-> "[1m", dim |-> "[2m", red |-> "[31m",
     green |-> "[32m", yellow |-> "[33m", blue |-> "[34m",
     magenta |-> "[35m", cyan |-> "[36m", white |-> "[37m"]

statusIcons ==
    [Running |-> "(green)", Pending |-> "(yellow)", Failed |-> "(red)",
     Succeeded |-> "(check)", Unknown |-> "(?)"]

IconOk == "(check)"
IconBad == "(cross)"

(***************************************************************************)
(* JavaScript arithmetic used by formatUptime.                             *)
(***************************************************************************)
\* a % b in JavaScript: the remainder takes the sign of the dividend
JsRem(a, b) == IF a >= 0 THEN a % b ELSE -((-a) % b)

\* Math.floor(a / b) for b > 0
MathFloorDiv(a, b) == a \div b

MinuteMs == 1000 * 60
HourMs == 1000 * 60 * 60
DayMs == 1000 * 60 * 60 * 24

\* An absent (undefined) timestamp, and a present one as epoch milliseconds
Undefined == [defined |-> FALSE, ms |-> 0]
Timestamp(t) == [defined |-> TRUE, ms |-> t]

(***************************************************************************)
(* formatUptime(startTime), with the `new Date()` it reads as `now`.       *)
(***************************************************************************)
formatUptimeNoModulo(startTime, now) ==
    LET diffMs == now - startTime
        days == MathFloorDiv(diffMs, DayMs)
        hours == MathFloorDiv(diffMs, HourMs)
        minutes == MathFloorDiv(diffMs, MinuteMs)
    IN  IF days > 0
          THEN ToString(days) \o "d " \o ToString(hours) \o "h " \o ToString(minutes) \o "m"
          ELSE IF hours > 0
                 THEN ToString(hours) \o "h " \o ToString(minutes) \o "m"
                 ELSE ToString(minutes) \o "m"

formatUptime(startTime, now) ==
    LET diffMs == now - startTime
        days == MathFloorDiv(diffMs, DayMs)
        hours == MathFloorDiv(JsRem(diffMs, DayMs), HourMs)
        minutes == MathFloorDiv(JsRem(diffMs, HourMs), MinuteMs)
    IN  IF days > 0
          THEN ToString(days) \o "d " \o ToString(hours) \o "h " \o ToString(minutes) \o "m"
          ELSE IF hours > 0
                 THEN ToString(hours) \o "h " \o ToString(minutes) \o "m"
                 ELSE ToString(minutes) \o "m"

(***************************************************************************)
(* formatRestartInfo(restartCount, lastRestartTime)                        *)
(***************************************************************************)
formatRestartInfoOffByOne(restartCount, lastRestartTime, now) ==
    IF restartCount = 0
      THEN colors.green \o "No restarts" \o colors.reset
      ELSE LET restartColor == IF restartCount >= 5 THEN colors.red
                               ELSE IF restartCount >= 2 THEN colors.yellow
                               ELSE colors.cyan
               timeAgo == IF lastRestartTime.defined
                            THEN formatUptime(lastRestartTime.ms, now)
                            ELSE "unknown"
           IN  restartColor \o ToString(restartCount) \o " restarts" \o colors.reset
                 \o " " \o colors.dim \o "(last: " \o timeAgo \o " ago)" \o colors.reset

formatRestartInfo(restartCount, lastRestartTime, now) ==
    IF restartCount = 0
      THEN colors.green \o "No restarts" \o colors.reset
      ELSE LET restartColor == IF restartCount > 5 THEN colors.red
                               ELSE IF restartCount > 2 THEN colors.yellow
                               ELSE colors.cyan
               timeAgo == IF lastRestartTime.defined
                            THEN formatUptime(lastRestartTime.ms, now)
                            ELSE "unknown"
           IN  restartColor \o ToString(restartCount) \o " restarts" \o colors.reset
                 \o " " \o colors.dim \o "(last: " \o timeAgo \o " ago)" \o colors.reset

(***************************************************************************)
(* formatHealthStatus(conditions)                                          *)
(***************************************************************************)
\* An absent condition array, and a present one
NoConditions == [defined |-> FALSE, items |-> <<>>]
Conditions(s) == [defined |-> TRUE, items |-> s]

\* Array.prototype.find(c => c.type === type): the first match, if any
find(items, type) ==
    LET idx == {i \in DOMAIN items : items[i].type = type}
    IN  IF idx = {}
          THEN [found |-> FALSE, status |-> ""]
          ELSE [found |-> TRUE,
                status |-> items[CHOOSE i \in idx : \A j \in idx : i <= j].status]

\* Array.prototype.join(sep) on an array of strings
RECURSIVE join(_, _)
join(parts, sep) ==
    IF parts = <<>> THEN ""
    ELSE IF Len(parts) = 1 THEN parts[1]
    ELSE parts[1] \o sep \o join(Tail(parts), sep)

\* the `health` array built by lines 120-135
healthFragments(items) ==
    LET ready == find(items, "Ready")
        scheduled == find(items, "PodScheduled")
        initialized == find(items, "Initialized")
        icon == IF ready.status = "True" THEN IconOk ELSE IconBad
        color == IF ready.status = "True" THEN colors.green ELSE colors.red
    IN  (IF ready.found
           THEN <<color \o "Ready: " \o icon \o colors.reset>> ELSE <<>>)
        \o (IF scheduled.found /\ scheduled.status = "True"
              THEN <<colors.green \o "Scheduled: " \o IconOk \o colors.reset>> ELSE <<>>)
        \o (IF initialized.found /\ initialized.status = "True"
              THEN <<colors.green \o "Initialized: " \o IconOk \o colors.reset>> ELSE <<>>)

formatHealthStatusNoFallback(conditions) ==
    IF ~conditions.defined \/ Len(conditions.items) = 0
      THEN colors.dim \o "No health data" \o colors.reset
      ELSE join(healthFragments(conditions.items), " | ")

formatHealthStatus(conditions) ==
    IF ~conditions.defined \/ Len(conditions.items) = 0
      THEN colors.dim \o "No health data" \o colors.reset
      ELSE LET joined == join(healthFragments(conditions.items), " | ")
           IN  IF joined # "" THEN joined
               ELSE colors.dim \o "Unknown" \o colors.reset

(***************************************************************************)
(* printSummary(pods, statefulSets).  A pod is [phase, ownerKinds] (the    *)
(* kinds of metadata.ownerReferences); a StatefulSet is [name, replicas,   *)
(* readyReplicas, currentReplicas], an absent counter being 0 (`|| 0`).    *)
(***************************************************************************)
\* pods.filter(p => p.status.phase === phase).length
countPhase(pods, phase) == Cardinality({i \in DOMAIN pods : pods[i].phase = phase})

\* p.metadata.ownerReferences?.some(ref => ref.kind === 'StatefulSet')
isStatefulSet(pod) == \E i \in DOMAIN pod.ownerKinds : pod.ownerKinds[i] = "StatefulSet"

\* String.prototype.padStart(n) with spaces
RECURSIVE padStart(_, _)
padStart(s, n) == IF Len(s) >= n THEN s ELSE padStart(" " \o s, n)

\* the health indicator of lines 236-237
healthStatusNoTotalCheck(pods) ==
    LET totalPods == Len(pods)
        runningPods == countPhase(pods, "Running")
        failedPods == countPhase(pods, "Failed")
    IN  IF runningPods = totalPods THEN "HEALTHY"
        ELSE IF failedPods > 0 THEN "UNHEALTHY" ELSE "DEGRADED"

healthStatus(pods) ==
    LET totalPods == Len(pods)
        runningPods == countPhase(pods, "Running")
        failedPods == countPhase(pods, "Failed")
    IN  IF runningPods = totalPods /\ totalPods > 0 THEN "HEALTHY"
        ELSE IF failedPods > 0 THEN "UNHEALTHY" ELSE "DEGRADED"

\* one line of the "StatefulSet Status" list
statefulSetLine(sts) ==
    LET desired == sts.replicas
        ready == sts.readyReplicas
        current == sts.currentReplicas
        statusColor == IF ready = desired THEN colors.green
                       ELSE IF ready = 0 THEN colors.red ELSE colors.yellow
    IN  "   * " \o colors.cyan \o sts.name \o colors.reset \o ": " \o statusColor
          \o ToString(ready) \o "/" \o ToString(desired) \o " ready" \o colors.reset
          \o " (" \o ToString(current) \o " current)"

\* the overall status line (line 241)
verdictLine(status) ==
    LET healthColor == IF status = "HEALTHY" THEN colors.green
                       ELSE IF status = "UNHEALTHY" THEN colors.red ELSE colors.yellow
        icon == IF status = "HEALTHY" THEN statusIcons.Running
                ELSE IF status = "UNHEALTHY" THEN statusIcons.Failed
                ELSE statusIcons.Pending
    IN  colors.bright \o "Overall CloudBees Core Status: " \o healthColor \o status
          \o colors.reset \o " " \o icon

\* the lines printSummary writes, in order
printSummary(pods, statefulSets) ==
    LET totalPods == Len(pods)
        runningPods == countPhase(pods, "Running")
        pendingPods == countPhase(pods, "Pending")
        failedPods == countPhase(pods, "Failed")
        statefulSetPods == Cardinality({i \in DOMAIN pods : isStatefulSet(pods[i])})
    IN  << "SUMMARY",
           "Total Pods: " \o colors.white \o padStart(ToString(totalPods), 3)
             \o colors.blue \o "  |  Running: " \o colors.green
             \o padStart(ToString(runningPods), 3)
             \o colors.blue \o "  |  Pending: " \o colors.yellow
             \o padStart(ToString(pendingPods), 3)
             \o colors.blue \o "  |  Failed: " \o colors.red
             \o padStart(ToString(failedPods), 3),
           "StatefulSets: " \o colors.magenta \o padStart(ToString(Len(statefulSets)), 2)
             \o colors.blue \o "   |  StatefulSet Pods: " \o colors.cyan
             \o padStart(ToString(statefulSetPods), 3) >>
        \o (IF Len(statefulSets) > 0
              THEN <<colors.bright \o "StatefulSet Status:" \o colors.reset>>
                     \o [i \in DOMAIN statefulSets |-> statefulSetLine(statefulSets[i])]
              ELSE <<>>)
        \o << verdictLine(healthStatus(pods)) >>

(***************************************************************************)
(* The fetchers.  The outcome of execAsync(cmd) is                         *)
(*   [exit: "ok" | "fail", stdout: [kind, items], stderr: words]           *)
(* where stdout.kind is "list" (a JSON document with items), "noItems" (a  *)
(* JSON document without items) or "garbage" (not JSON).  Messages are     *)
(* sequences of words and String.prototype.includes is a search for a      *)
(* contiguous run of words.                                                *)
(***************************************************************************)
namespace == "cloudbees-core"
labelSelector == "app.kubernetes.io/name=cloudbees-core"

NoResourcesFound == <<"No", "resources", "found">>

includes(message, needle) ==
    \E i \in 1..(Len(message) - Len(needle) + 1) :
        SubSeq(message, i, i + Len(needle) - 1) = needle

\* the Error child_process.exec rejects with: "Command failed: <cmd>\n<stderr>"
ExecErrorMessage(cmd, stderr) == <<"Command", "failed:">> \o cmd \o stderr

\* the SyntaxError JSON.parse throws (node 18: names one character of its input)
JsonSyntaxErrorMessage == <<"Unexpected", "token", "in", "JSON", "at", "position", "0">>

Items(items) == [ok |-> TRUE, items |-> items, message |-> <<>>]
Throw(message) == [ok |-> FALSE, items |-> <<>>, message |-> message]

getJenkinsPodsSwallowAll(out) ==
    LET cmd == <<"kubectl", "get", "pods", "-n", namespace, "-l", labelSelector, "-o", "json">>
    IN  IF out.exit = "ok" /\ out.stdout.kind = "list" THEN Items(out.stdout.items)
        ELSE Items(<<>>)

getJenkinsPods(out) ==
    LET cmd == <<"kubectl", "get", "pods", "-n", namespace, "-l", labelSelector, "-o", "json">>
        catch(message) == IF includes(message, NoResourcesFound)
                            THEN Items(<<>>) ELSE Throw(message)
    IN  IF out.exit = "fail" THEN catch(ExecErrorMessage(cmd, out.stderr))
        ELSE IF out.stdout.kind = "garbage" THEN catch(JsonSyntaxErrorMessage)
        ELSE IF out.stdout.kind = "noItems" THEN Items(<<>>)
        ELSE Items(out.stdout.items)

getStatefulSets(out) ==
    LET cmd == <<"kubectl", "get", "statefulsets", "-n", namespace, "-l", labelSelector,
                 "-o", "json">>
        catch(message) == IF includes(message, NoResourcesFound)
                            THEN Items(<<>>) ELSE Throw(message)
    IN  IF out.exit = "fail" THEN catch(ExecErrorMessage(cmd, out.stderr))
        ELSE IF out.stdout.kind = "garbage" THEN catch(JsonSyntaxErrorMessage)
        ELSE IF out.stdout.kind = "noItems" THEN Items(<<>>)
        ELSE Items(out.stdout.items)

(***************************************************************************)
(* Inputs of the calls checked under SpecCalls.                            *)
(***************************************************************************)
\* sequences over S of length at most n
SeqUpTo(S, n) == UNION {[1..k -> S] : k \in 0..n}

\* "now" as epoch milliseconds (new Date() at the time of the call)
Now == 10 * DayMs

\* elapsed durations: whole days, an hour part, a minute part, a sub-minute part
HourSamples == {0, 1, 23}
MinuteSamples == {0, 5, 10, 59}
MsSamples == {0, 1, 59999}
Elapsed ==
    {d * DayMs + h * HourMs + m * MinuteMs + ms :
        d \in 0..MaxDays, h \in HourSamples, m \in MinuteSamples, ms \in MsSamples}

\* start timestamps in the past, now, and in the future
StartTimes == {Now - e : e \in Elapsed} \cup {Now + e : e \in Elapsed}

UptimeCalls == {[fn |-> "formatUptime", startTime |-> t, now |-> Now] : t \in StartTimes}

LastRestartTimes ==
    {Undefined} \cup {Timestamp(Now - e) :
                        e \in {0, 10 * MinuteMs, 65 * MinuteMs, DayMs + HourMs}}

RestartCalls ==
    {[fn |-> "formatRestartInfo", restartCount |-> n, lastRestartTime |-> t, now |-> Now] :
        n \in 0..MaxRestarts, t \in LastRestartTimes}

ConditionTypes == {"Ready", "PodScheduled", "Initialized", "ContainersReady"}
ConditionStatuses == {"True", "False", "Unknown"}
ConditionValues == [type : ConditionTypes, status : ConditionStatuses]

HealthCalls ==
    {[fn |-> "formatHealthStatus", conditions |-> c] :
        c \in {NoConditions} \cup {Conditions(s) : s \in SeqUpTo(ConditionValues, MaxConditions)}}

Phases == {"Running", "Pending", "Failed", "Succeeded", "Unknown"}
PodValues ==
    [phase : Phases, ownerKinds : {<<>>}]
      \cup [phase : {"Running", "Pending"}, ownerKinds : {<<"StatefulSet">>}]
StatefulSetValues ==
    {[name |-> "cjoc", replicas |-> 3, readyReplicas |-> r, currentReplicas |-> 3] :
        r \in {0, 1, 3}}

\* run() calls printSummary unless both lists are empty
SummaryCalls ==
    {[fn |-> "printSummary", pods |-> a[1], statefulSets |-> a[2]] :
        a \in {x \in SeqUpTo(PodValues, MaxPods)
                        \X SeqUpTo(StatefulSetValues, MaxStatefulSets) :
                  Len(x[1]) + Len(x[2]) > 0}}

\* what kubectl may write to stderr when it exits non-zero
NoResourcesStderr == <<"No", "resources", "found", "in", namespace, "namespace.">>
OtherStderrs ==
    { <<"Unable", "to", "connect", "to", "the", "server">>,
      <<"Error", "from", "server", "(Forbidden)">>,
      <<"error:", "the", "server", "doesn't", "have", "resources", "found">>,
      <<>> }

PodListings ==
    { <<>>,
      <<[phase |-> "Running", ownerKinds |-> <<"StatefulSet">>],
        [phase |-> "Failed", ownerKinds |-> <<>>]>> }
StatefulSetListings ==
    { <<>>, <<[name |-> "cjoc", replicas |-> 3, readyReplicas |-> 1, currentReplicas |-> 3]>> }

ExecOutcomes(listings) ==
    {[exit |-> "ok", stdout |-> [kind |-> "list", items |-> l], stderr |-> <<>>] :
        l \in listings}
      \cup {[exit |-> "ok", stdout |-> [kind |-> k, items |-> <<>>], stderr |-> <<>>] :
              k \in {"noItems", "garbage"}}
      \cup {[exit |-> "fail", stdout |-> [kind |-> "garbage", items |-> <<>>], stderr |-> e] :
              e \in {NoResourcesStderr} \cup OtherStderrs}

FetchCalls ==
    {[fn |-> "getJenkinsPods", out |-> o] : o \in ExecOutcomes(PodListings)}
      \cup {[fn |-> "getStatefulSets", out |-> o] : o \in ExecOutcomes(StatefulSetListings)}

NoCall == [fn |-> "none"]

(***************************************************************************)
(* SpecCalls: one call of one derivation function or fetcher.              *)
(***************************************************************************)
IdleProcess ==
    /\ argv = {}
    /\ pc = "start"
    /\ exitCode = 0
    /\ timerSet = FALSE
    /\ sinceTick = 0
    /\ cycles = <<>>
    /\ console = <<>>

InitCalls ==
    /\ IdleProcess
    /\ \/ call \in UptimeCalls
       \/ call \in RestartCalls
       \/ call \in HealthCalls
       \/ call \in SummaryCalls
       \/ call \in FetchCalls
    /\ returned = FALSE
    /\ ret = ""

Return(value) ==
    /\ ~returned
    /\ returned' = TRUE
    /\ ret' = value
    /\ UNCHANGED <<call, procVars>>

CallFormatUptime ==
    /\ call.fn = "formatUptime"
    /\ Return(formatUptime(call.startTime, call.now))

CallFormatRestartInfo ==
    /\ call.fn = "formatRestartInfo"
    /\ Return(formatRestartInfo(call.restartCount, call.lastRestartTime, call.now))

CallFormatHealthStatus ==
    /\ call.fn = "formatHealthStatus"
    /\ Return(formatHealthStatus(call.conditions))

CallPrintSummary ==
    /\ call.fn = "printSummary"
    /\ Return(printSummary(call.pods, call.statefulSets))

CallGetJenkinsPods ==
    /\ call.fn = "getJenkinsPods"
    /\ Return(getJenkinsPods(call.out))

CallGetStatefulSets ==
    /\ call.fn = "getStatefulSets"
    /\ Return(getStatefulSets(call.out))

NextCalls ==
    \/ CallFormatUptime
    \/ CallFormatRestartInfo
    \/ CallFormatHealthStatus
    \/ CallPrintSummary
    \/ CallGetJenkinsPods
    \/ CallGetStatefulSets

SpecCalls == InitCalls /\ [][NextCalls]_vars

(***************************************************************************)
(* The script: argument handling, monitor.run() and watch mode.            *)
(*                                                                         *)
(* A cycle is one invocation of monitor.run():                             *)
(*   stage: "checkKubectl" (awaiting `kubectl version --client`),          *)
(*          "queries" (awaiting Promise.all of the two fetchers),          *)
(*          "done" (run returned), "failed" (run called process.exit(1))   *)
(*   kubectl: "pending" | "ok" | "fail", the outcome of checkKubectl       *)
(*   pods, statefulSets: the state of each fetcher's promise               *)
(*   printed: the blocks this invocation has written, in order             *)
(* A console entry is [cycle, block, text]; cycle 0 is the script itself.  *)
(***************************************************************************)
IntervalMs == 30000

\* the command lines considered (flags the script does not know are ignored)
CommandLines == {{}, {"--watch"}, {"-w"}, {"--help"}, {"-h"}, {"--help", "--watch"}}
Help == "--help" \in argv \/ "-h" \in argv
Watch == "--watch" \in argv \/ "-w" \in argv

Idle == [st |-> "idle", items |-> <<>>, message |-> <<>>]
Pending == [st |-> "pending", items |-> <<>>, message |-> <<>>]
Resolved(items) == [st |-> "ok", items |-> items, message |-> <<>>]
Rejected(message) == [st |-> "error", items |-> <<>>, message |-> message]

Entry(c, block, text) == [cycle |-> c, block |-> block, text |-> text]

\* the blocks of a sequence of console entries
Blocks(entries) == [i \in DOMAIN entries |-> entries[i].block]

InFlight(c) == cycles[c].stage \in {"checkKubectl", "queries"}

\* printPodInfo(pod): the block's type and status lines
printPodInfo(pod) ==
    << (IF isStatefulSet(pod) THEN "StatefulSet Pod" ELSE "Pod"),
       "Status: " \o pod.phase >>

\* run() after Promise.all resolved (lines 260-271): what it writes
renderNoReturn(c, pods, statefulSets) ==
    (IF Len(pods) = 0 /\ Len(statefulSets) = 0
       THEN <<Entry(c, "noResources", <<namespace, labelSelector>>)>> ELSE <<>>)
    \o [i \in DOMAIN pods |-> Entry(c, "pod", printPodInfo(pods[i]))]
    \o <<Entry(c, "summary", printSummary(pods, statefulSets))>>

render(c, pods, statefulSets) ==
    IF Len(pods) = 0 /\ Len(statefulSets) = 0
      THEN <<Entry(c, "noResources", <<namespace, labelSelector>>)>>
      ELSE [i \in DOMAIN pods |-> Entry(c, "pod", printPodInfo(pods[i]))]
             \o <<Entry(c, "summary", printSummary(pods, statefulSets))>>

\* process.exit(code)
processExit(code) ==
    /\ pc' = "exited"
    /\ exitCode' = code

\* cycle c writes `entries` and moves to `next`
Write(c, entries, next) ==
    /\ console' = console \o entries
    /\ cycles' = [cycles EXCEPT ![c] = [next EXCEPT !.printed = @ \o Blocks(entries)]]

\* run()'s catch block (lines 273-276) for cycle c, left in state `next`
runCatchNoExit(c, next, message) ==
    /\ Write(c, <<Entry(c, "error", <<"Error:">> \o message)>>, next)
    /\ UNCHANGED <<pc, exitCode>>

runCatch(c, next, message) ==
    /\ Write(c, <<Entry(c, "error", <<"Error:">> \o message)>>, next)
    /\ processExit(1)

\* run() from its start to its first await: printHeader, then checkKubectl's exec
NewCycle ==
    [stage |-> "checkKubectl", kubectl |-> "pending", pods |-> Idle,
     statefulSets |-> Idle, printed |-> <<"header">>]

Init ==
    /\ argv \in CommandLines
    /\ pc = "start"
    /\ exitCode = 0
    /\ timerSet = FALSE
    /\ sinceTick = 0
    /\ cycles = <<>>
    /\ console = <<>>
    /\ call = NoCall
    /\ returned = FALSE
    /\ ret = ""

\* --help / -h: print the usage and exit 0 (lines 281-302)
MainHelp ==
    /\ pc = "start"
    /\ Help
    /\ console' = <<Entry(0, "usage", <<"Jenkins Pod Status Monitor">>)>>
    /\ processExit(0)
    /\ UNCHANGED <<argv, timerSet, sinceTick, cycles, callVars>>

\* --watch / -w: runMonitor() once, then setInterval(runMonitor, 30000)
MainWatch ==
    /\ pc = "start"
    /\ ~Help
    /\ Watch
    /\ console' = <<Entry(1, "header", <<namespace, labelSelector>>)>>
    /\ cycles' = <<NewCycle>>
    /\ timerSet' = TRUE
    /\ sinceTick' = 0
    /\ pc' = "running"
    /\ UNCHANGED <<argv, exitCode, callVars>>

\* no flag: a single monitor.run()
MainSingle ==
    /\ pc = "start"
    /\ ~Help
    /\ ~Watch
    /\ console' = <<Entry(1, "header", <<namespace, labelSelector>>)>>
    /\ cycles' = <<NewCycle>>
    /\ pc' = "running"
    /\ UNCHANGED <<argv, exitCode, timerSet, sinceTick, callVars>>

\* time passes while the process waits on its timer and child processes
Advance ==
    /\ pc = "running"
    /\ timerSet
    /\ sinceTick < IntervalMs
    /\ sinceTick' = sinceTick + ClockStep
    /\ UNCHANGED <<argv, pc, exitCode, timerSet, cycles, console, callVars>>

\* the interval fires: runMonitor() clears the console and starts run()
TimerFire ==
    /\ pc = "running"
    /\ timerSet
    /\ sinceTick >= IntervalMs
    /\ Len(cycles) < MaxCycles
    /\ console' = <<Entry(Len(cycles) + 1, "header", <<namespace, labelSelector>>)>>
    /\ cycles' = Append(cycles, NewCycle)
    /\ sinceTick' = 0
    /\ UNCHANGED <<argv, pc, exitCode, timerSet, callVars>>

\* `kubectl version --client` succeeded: checkKubectl returns true, run() goes
\* on to start both fetchers and awaits Promise.all
KubectlAvailable(c) ==
    /\ pc = "running"
    /\ cycles[c].stage = "checkKubectl"
    /\ Write(c, <<Entry(c, "searching", <<>>)>>,
             [cycles[c] EXCEPT !.stage = "queries", !.kubectl = "ok",
                               !.pods = Pending, !.statefulSets = Pending])
    /\ UNCHANGED <<argv, pc, exitCode, timerSet, sinceTick, callVars>>

\* it failed: checkKubectl reports and returns false, run() calls process.exit(1)
KubectlUnavailable(c) ==
    /\ pc = "running"
    /\ cycles[c].stage = "checkKubectl"
    /\ Write(c, <<Entry(c, "kubectlError", <<"kubectl", "is", "not", "installed">>)>>,
             [cycles[c] EXCEPT !.stage = "failed", !.kubectl = "fail"])
    /\ processExit(1)
    /\ UNCHANGED <<argv, timerSet, sinceTick, callVars>>

\* both fetchers of cycle c have resolved: run() renders and returns; in watch
\* mode runMonitor then writes its "Refreshing" line, in single-shot mode
\* nothing is left to run and node exits with status 0
Complete(c, next) ==
    /\ Write(c, render(c, next.pods.items, next.statefulSets.items)
                  \o (IF Watch THEN <<Entry(c, "refreshing", <<>>)>> ELSE <<>>),
             [next EXCEPT !.stage = "done"])
    /\ IF Watch THEN UNCHANGED <<pc, exitCode>> ELSE processExit(0)

\* one fetcher's promise settles with `result`, the other's state being `other`
Settle(c, next, result, other) ==
    IF ~result.ok
      THEN runCatch(c, [next EXCEPT !.stage = "failed"], result.message)
      ELSE IF other.st = "ok"
             THEN Complete(c, next)
             ELSE /\ cycles' = [cycles EXCEPT ![c] = next]
                  /\ UNCHANGED <<pc, exitCode, console>>

\* the exec of getJenkinsPods calls back with `out`
PodsQueryDone(c, out) ==
    /\ pc = "running"
    /\ cycles[c].stage = "queries"
    /\ cycles[c].pods.st = "pending"
    /\ LET result == getJenkinsPods(out)
           next == [cycles[c] EXCEPT !.pods =
                       IF result.ok THEN Resolved(result.items)
                       ELSE Rejected(result.message)]
       IN  Settle(c, next, result, cycles[c].statefulSets)
    /\ UNCHANGED <<argv, timerSet, sinceTick, callVars>>

\* the exec of getStatefulSets calls back with `out`
StatefulSetsQueryDone(c, out) ==
    /\ pc = "running"
    /\ cycles[c].stage = "queries"
    /\ cycles[c].statefulSets.st = "pending"
    /\ LET result == getStatefulSets(out)
           next == [cycles[c] EXCEPT !.statefulSets =
                       IF result.ok THEN Resolved(result.items)
                       ELSE Rejected(result.message)]
       IN  Settle(c, next, result, cycles[c].pods)
    /\ UNCHANGED <<argv, timerSet, sinceTick, callVars>>

Next ==
    \/ MainHelp
    \/ MainWatch
    \/ MainSingle
    \/ Advance
    \/ TimerFire
    \/ \E c \in DOMAIN cycles : KubectlAvailable(c)
    \/ \E c \in DOMAIN cycles : KubectlUnavailable(c)
    \/ \E c \in DOMAIN cycles : \E out \in ExecOutcomes(PodListings) :
          PodsQueryDone(c, out)
    \/ \E c \in DOMAIN cycles : \E out \in ExecOutcomes(StatefulSetListings) :
          StatefulSetsQueryDone(c, out)

Spec == Init /\ [][Next]_vars

(***************************************************************************)
(* Properties of the fetchers and derivation functions (SpecCalls).        *)
(***************************************************************************)
Called(fn) == returned /\ call.fn = fn

\* C5: each fetcher returns an empty sequence when kubectl reports no matching
\* resources (a document without items, or a failure saying "No resources
\* found"), returns the listed items on success, and throws for every other
\* failure (command failure, unparseable output); it throws in no other case.
FetcherOutcomes ==
    (Called("getJenkinsPods") \/ Called("getStatefulSets")) =>
        LET o == call.out
            noMatching == \/ o.exit = "ok" /\ o.stdout.kind = "noItems"
                          \/ o.exit = "fail" /\ o.stderr = NoResourcesStderr
            otherFailure == \/ o.exit = "fail" /\ o.stderr \in OtherStderrs
                            \/ o.exit = "ok" /\ o.stdout.kind = "garbage"
            listed == o.exit = "ok" /\ o.stdout.kind = "list"
        IN  /\ noMatching => ret.ok /\ ret.items = <<>>
            /\ listed => ret.ok /\ ret.items = o.stdout.items
            /\ otherFailure <=> ~ret.ok

\* C5 witness: a failure saying "No resources found" came back as an empty sequence
FetcherNoResourcesWitness ==
    /\ Called("getJenkinsPods")
    /\ call.out.exit = "fail"
    /\ call.out.stderr = NoResourcesStderr
    /\ ret.ok
    /\ ret.items = <<>>

\* C6: for zero or negative elapsed time (a start timestamp at or after "now")
\* formatUptime returns "0m".
UptimeClampedToZero ==
    (Called("formatUptime") /\ call.now - call.startTime <= 0) => ret = "0m"

\* C7: for every non-negative elapsed duration formatUptime returns
\* "{d}d {h}h {m}m" when d > 0, "{h}h {m}m" when d = 0 and h > 0, else "{m}m",
\* with d, h, m the whole days, remaining whole hours and remaining whole
\* minutes, 0 <= h < 24 and 0 <= m < 60; 65 minutes gives "1h 5m".
UptimeFormat ==
    (Called("formatUptime") /\ call.now - call.startTime >= 0) =>
        LET e == call.now - call.startTime
            d == e \div DayMs
            h == (e \div HourMs) % 24
            m == (e \div MinuteMs) % 60
        IN  /\ h \in 0..23
            /\ m \in 0..59
            /\ d > 0 => ret = ToString(d) \o "d " \o ToString(h) \o "h " \o ToString(m) \o "m"
            /\ d = 0 /\ h > 0 => ret = ToString(h) \o "h " \o ToString(m) \o "m"
            /\ d = 0 /\ h = 0 => ret = ToString(m) \o "m"
            /\ e = 65 * MinuteMs => ret = "1h 5m"

\* C7 witness: a start 65 minutes before now was formatted
UptimeFormatWitness ==
    /\ Called("formatUptime")
    /\ call.now - call.startTime = 65 * MinuteMs
    /\ ret = "1h 5m"

\* C8: the verdict printSummary prints is HEALTHY exactly when there is at
\* least one pod and every pod is Running, UNHEALTHY when it is not HEALTHY and
\* some pod is Failed, DEGRADED otherwise (zero pods with a StatefulSet
\* included); it is never HEALTHY when a pod is Failed.
VerdictRule ==
    Called("printSummary") =>
        LET pods == call.pods
            allRunning == \A i \in DOMAIN pods : pods[i].phase = "Running"
            anyFailed == \E i \in DOMAIN pods : pods[i].phase = "Failed"
            expected == IF Len(pods) > 0 /\ allRunning THEN "HEALTHY"
                        ELSE IF anyFailed THEN "UNHEALTHY" ELSE "DEGRADED"
        IN  /\ ret[Len(ret)] = verdictLine(expected)
            /\ anyFailed => ret[Len(ret)] # verdictLine("HEALTHY")

\* C8 witness: no pods but a StatefulSet, reported DEGRADED
VerdictWitness ==
    /\ Called("printSummary")
    /\ call.pods = <<>>
    /\ Len(call.statefulSets) = 1
    /\ ret[Len(ret)] = verdictLine("DEGRADED")

\* the color of a severity class
SeverityColor(severity) ==
    CASE severity = "error" -> colors.red
      [] severity = "warn" -> colors.yellow
      [] severity = "info" -> colors.cyan

\* C9: formatRestartInfo says "No restarts" for count 0 whatever the
\* last-termination timestamp; for count > 0 its severity is error when
\* count > 5, warn when 2 < count <= 5, info for 1 or 2, and it carries the
\* time since the last restart as formatUptime gives it, or "unknown" when
\* the timestamp is absent.
RestartInfoFormat ==
    Called("formatRestartInfo") =>
        LET n == call.restartCount
            severity == IF n > 5 THEN "error"
                        ELSE IF n \in 3..5 THEN "warn" ELSE "info"
            since == IF call.lastRestartTime.defined
                       THEN formatUptime(call.lastRestartTime.ms, call.now)
                       ELSE "unknown"
        IN  /\ n = 0 => ret = colors.green \o "No restarts" \o colors.reset
            /\ n > 0 => ret = SeverityColor(severity) \o ToString(n) \o " restarts"
                                \o colors.reset \o " " \o colors.dim
                                \o "(last: " \o since \o " ago)" \o colors.reset

\* C9 witness: 7 restarts, the last one 10 minutes ago: error, "10m"
RestartInfoWitness ==
    /\ Called("formatRestartInfo")
    /\ call.restartCount = 7
    /\ call.lastRestartTime = Timestamp(call.now - 10 * MinuteMs)
    /\ ret = colors.red \o "7 restarts" \o colors.reset \o " " \o colors.dim
               \o "(last: 10m ago)" \o colors.reset

\* C10: formatHealthStatus never returns an empty string: "No health data" for
\* an absent or empty sequence; otherwise one fragment for Ready whenever a
\* Ready condition is present (satisfied or not), one each for PodScheduled and
\* Initialized only when its status is "True", joined by " | ", and "Unknown"
\* when no condition qualifies.  The first condition of a type decides.
HealthNeverBlank ==
    Called("formatHealthStatus") =>
        LET c == call.conditions
            has(t) == \E i \in DOMAIN c.items : c.items[i].type = t
            first(t) == CHOOSE i \in DOMAIN c.items :
                            /\ c.items[i].type = t
                            /\ \A j \in 1..(i - 1) : c.items[j].type # t
            true(t) == has(t) /\ c.items[first(t)].status = "True"
            readyPart == IF ~has("Ready") THEN <<>>
                         ELSE IF true("Ready")
                                THEN <<colors.green \o "Ready: " \o IconOk \o colors.reset>>
                                ELSE <<colors.red \o "Ready: " \o IconBad \o colors.reset>>
            scheduledPart == IF true("PodScheduled")
                               THEN <<colors.green \o "Scheduled: " \o IconOk \o colors.reset>>
                               ELSE <<>>
            initializedPart == IF true("Initialized")
                                 THEN <<colors.green \o "Initialized: " \o IconOk
                                          \o colors.reset>>
                                 ELSE <<>>
            fragments == readyPart \o scheduledPart \o initializedPart
        IN  /\ ret # ""
            /\ Len(ret) > 0
            /\ (~c.defined \/ c.items = <<>>) =>
                   ret = colors.dim \o "No health data" \o colors.reset
            /\ (c.defined /\ c.items # <<>> /\ fragments = <<>>) =>
                   ret = colors.dim \o "Unknown" \o colors.reset
            /\ (c.defined /\ fragments # <<>>) => ret = join(fragments, " | ")

\* C10 witness: conditions were given but none qualifies, and "Unknown" came back
HealthUnknownWitness ==
    /\ Called("formatHealthStatus")
    /\ call.conditions.defined
    /\ Len(call.conditions.items) = 2
    /\ call.conditions.items[1] = [type |-> "PodScheduled", status |-> "False"]
    /\ call.conditions.items[2] = [type |-> "ContainersReady", status |-> "True"]
    /\ ret = colors.dim \o "Unknown" \o colors.reset

(***************************************************************************)
(* Properties of the script (Spec).                                        *)
(***************************************************************************)
\* cycle c failed: kubectl was unavailable or a fetcher threw
Failed(c) ==
    \/ cycles[c].kubectl = "fail"
    \/ cycles[c].pods.st = "error"
    \/ cycles[c].statefulSets.st = "error"

\* cycle c has written a block of one of `blocks`
Printed(c, blocks) == \E i \in DOMAIN cycles[c].printed : cycles[c].printed[i] \in blocks

\* C1: in watch mode at most one cycle (runMonitor -> monitor.run) is in flight
\* at any time, however long its kubectl check and queries take.
CyclesNeverOverlap ==
    Watch => Cardinality({c \in DOMAIN cycles : InFlight(c)}) <= 1

\* C2: in watch mode a failed cycle is reported and the process is not
\* terminated, so that the next tick can start a further cycle.
WatchFailureContinues ==
    (Watch /\ ~Help) =>
        \A c \in DOMAIN cycles :
            Failed(c) => Printed(c, {"kubectlError", "error"}) /\ pc = "running"

\* C3: in single-shot mode, when the kubectl check fails or a query fails with
\* an error other than "no resources", an error is reported, the process has
\* exited with status 1, and that cycle rendered no pod block and no summary.
SingleShotFailureExits ==
    (~Watch /\ ~Help) =>
        \A c \in DOMAIN cycles :
            Failed(c) =>
                /\ Printed(c, {"kubectlError", "error"})
                /\ pc = "exited"
                /\ exitCode = 1
                /\ ~Printed(c, {"pod", "summary"})
                /\ \A i \in DOMAIN console : console[i].block \notin {"pod", "summary"}

\* C3 witness: single-shot, the pod query threw while the StatefulSet query
\* was still pending, and the process exited 1
SingleShotFailureWitness ==
    /\ ~Watch /\ ~Help
    /\ Len(cycles) = 1
    /\ cycles[1].pods.st = "error"
    /\ cycles[1].statefulSets.st = "pending"
    /\ pc = "exited"
    /\ exitCode = 1

\* both queries of cycle c returned an empty sequence
BothEmpty(c) ==
    /\ cycles[c].pods.st = "ok"
    /\ cycles[c].statefulSets.st = "ok"
    /\ cycles[c].pods.items = <<>>
    /\ cycles[c].statefulSets.items = <<>>

\* C4: when both queries return empty sequences the cycle reports "no
\* resources found", writes no pod block and no summary (so no verdict), and
\* in single-shot mode the process ends with exit status 0.
NoResourcesOutcome ==
    \A c \in DOMAIN cycles :
        BothEmpty(c) =>
            /\ cycles[c].stage = "done"
            /\ Printed(c, {"noResources"})
            /\ ~Printed(c, {"pod", "summary"})
            /\ ~Watch => pc = "exited" /\ exitCode = 0

\* C4 witness: single-shot, both queries empty, exit status 0
NoResourcesWitness ==
    /\ ~Watch /\ ~Help
    /\ Len(cycles) = 1
    /\ BothEmpty(1)
    /\ console[Len(console)].block = "noResources"
    /\ pc = "exited"
    /\ exitCode = 0

====
